---------------------------- MODULE Spec2Model ----------------------------
(***************************************************************************)
(* A model of the PerfSpect event-definition pipeline                      *)
(* (src/cmd/metrics/metrics-server.go): the x86 and ARM event catalog      *)
(* loaders, the collectability filter, the name abbreviator, the event     *)
(* line parser and the uncore group expander.                              *)
(*                                                                         *)
(* Go strings are modelled as sequences of one-character strings, so that  *)
(* slicing, splitting, prefix tests, substring search and replacement are  *)
(* computed character by character as the Go runtime computes them.        *)
(***************************************************************************)
EXTENDS Integers, Sequences, FiniteSets, TLC

VARIABLES
    md,         \* the Metadata value handed to the loader / filter
    flagScope,  \* the process-wide collection scope flag
    ab,         \* abbreviateEventName under test: input and results
    pe,         \* parseEventDefinition under test: line and result
    ce,         \* isCollectableEvent under test: event and result
    ex,         \* expandUncoreGroup under test: group, ids and result
    ld,         \* LoadEventGroups / LoadArmEventGroups: locals and results
    tc,         \* transformConditional: formula and result
    pa          \* getPerfCommandArgs: arguments and result

vars == <<md, flagScope, ab, pe, ce, ex, ld, tc, pa>>

-----------------------------------------------------------------------------
(* Bounds of the model *)

\* number of fragments an abbreviator input is concatenated from
MaxAbbrParts == 2

\* number of comma-separated fields a line handed to the parser is joined from
MaxParseFields == 2

\* number of instances of the uncore device type that has instances
NumInstances == 2

\* number of events of a group handed to the expander
MaxGroupEvents == 2

\* number of lines of an x86 catalog file
MaxLines == 2

\* number of entries of an ARM catalog directory
MaxFiles == 2

\* number of fragments a metric formula is concatenated from
MaxFormulaParts == 3

\* number of groups handed to expandUncoreGroups
MaxGroups == 3

\* largest timeout and duration, in seconds
MaxTimeout == 2


-----------------------------------------------------------------------------
(* package strings, on sequences of characters *)

\* s[i-1 : i-1+len(sub)] == sub, for a 1-based position i
MatchAt(s, sub, i) ==
    /\ i >= 1
    /\ i + Len(sub) - 1 <= Len(s)
    /\ SubSeq(s, i, i + Len(sub) - 1) = sub

HasPrefix(s, prefix) == MatchAt(s, prefix, 1)

Contains(s, sub) == \E i \in 1..(Len(s) - Len(sub) + 1) : MatchAt(s, sub, i)

\* strings.Index, 1-based; 0 when sub does not occur at or after from
IndexFrom(s, sub, from) ==
    LET hits == {i \in from..(Len(s) - Len(sub) + 1) : MatchAt(s, sub, i)}
    IN  IF hits = {} THEN 0 ELSE CHOOSE i \in hits : \A j \in hits : i <= j

RECURSIVE ReplaceFrom(_, _, _, _)
ReplaceFrom(s, old, new, i) ==
    LET k == IndexFrom(s, old, i)
    IN  IF k = 0 THEN SubSeq(s, i, Len(s))
        ELSE SubSeq(s, i, k - 1) \o new \o ReplaceFrom(s, old, new, k + Len(old))

\* strings.Replace(s, old, new, -1) for a non-empty old: the non-overlapping
\* occurrences of old, found left to right, are replaced by new
Replace(s, old, new) == ReplaceFrom(s, old, new, 1)

RECURSIVE SplitFrom(_, _, _)
SplitFrom(s, sep, i) ==
    LET k == IndexFrom(s, sep, i)
    IN  IF k = 0 THEN <<SubSeq(s, i, Len(s))>>
        ELSE <<SubSeq(s, i, k - 1)>> \o SplitFrom(s, sep, k + Len(sep))

\* strings.Split(s, sep) for a non-empty sep: always at least one field
Split(s, sep) == SplitFrom(s, sep, 1)

-----------------------------------------------------------------------------
(* abbreviateEventName *)

\* a table that lists IMD_OPT before the entry that produces IMD
abbreviationsReordered ==
    << <<<<"I","M","D","_","O","P","T">>, <<"I","M","D","O">>>>,
       <<<<"U","N","C","_","C","H","A","_","T","O","R","_","I","N","S","E","R","T","S">>, <<"U","N","C","C","T","I">>>>,
       <<<<"U","N","C","_","C","H","A","_","T","O","R","_","O","C","C","U","P","A","N","C","Y">>, <<"U","N","C","C","T","O">>>>,
       <<<<"U","N","C","_","C","H","A","_","C","L","O","C","K","T","I","C","K","S">>, <<"U","N","C","C","C","T">>>>,
       <<<<"U","N","C","_","M","_","C","A","S","_","C","O","U","N","T","_","S","C","H">>, <<"U","N","C","M","C","C">>>>,
       <<<<"I","A","_","M","I","S","S","_","D","R","D","_","R","E","M","O","T","E">>, <<"I","M","D","R">>>>,
       <<<<"I","A","_","M","I","S","S","_","D","R","D","_","L","O","C","A","L">>, <<"I","M","D","L">>>>,
       <<<<"I","A","_","M","I","S","S","_","L","L","C","P","R","E","F","D","A","T","A">>, <<"I","M","L","P">>>>,
       <<<<"I","A","_","M","I","S","S","_","L","L","C","P","R","E","F","R","F","O">>, <<"I","M","L","R">>>>,
       <<<<"I","A","_","M","I","S","S","_","D","R","D","_","P","R","E","F","_","L","O","C","A","L">>, <<"I","M","D","P","L">>>>,
       <<<<"I","A","_","M","I","S","S","_","D","R","D","_","P","R","E","F","_","R","E","M","O","T","E">>, <<"I","M","D","R","P">>>>,
       <<<<"I","A","_","M","I","S","S","_","C","R","D","_","P","R","E","F">>, <<"I","M","C","P">>>>,
       <<<<"I","A","_","M","I","S","S","_","R","F","O","_","P","R","E","F">>, <<"I","M","R","P">>>>,
       <<<<"I","A","_","M","I","S","S","_","R","F","O">>, <<"I","M","R","F">>>>,
       <<<<"I","A","_","M","I","S","S","_","C","R","D">>, <<"I","M","C">>>>,
       <<<<"I","A","_","M","I","S","S","_","D","R","D">>, <<"I","M","D">>>>,
       <<<<"I","O","_","P","C","I","R","D","C","U","R">>, <<"I","P","C","I">>>>,
       <<<<"I","O","_","I","T","O","M","C","A","C","H","E","N","E","A","R">>, <<"I","I","T","N">>>>,
       <<<<"I","O","_","I","T","O","M">>, <<"I","I","T","O">>>> >>

\* a table whose entry for UNC_M_CAS_COUNT_SCH drops the UNC of the short form
abbreviationsShortest ==
    << <<<<"U","N","C","_","C","H","A","_","T","O","R","_","I","N","S","E","R","T","S">>, <<"U","N","C","C","T","I">>>>,
       <<<<"U","N","C","_","C","H","A","_","T","O","R","_","O","C","C","U","P","A","N","C","Y">>, <<"U","N","C","C","T","O">>>>,
       <<<<"U","N","C","_","C","H","A","_","C","L","O","C","K","T","I","C","K","S">>, <<"U","N","C","C","C","T">>>>,
       <<<<"U","N","C","_","M","_","C","A","S","_","C","O","U","N","T","_","S","C","H">>, <<"M","C","C">>>>,
       <<<<"I","A","_","M","I","S","S","_","D","R","D","_","R","E","M","O","T","E">>, <<"I","M","D","R">>>>,
       <<<<"I","A","_","M","I","S","S","_","D","R","D","_","L","O","C","A","L">>, <<"I","M","D","L">>>>,
       <<<<"I","A","_","M","I","S","S","_","L","L","C","P","R","E","F","D","A","T","A">>, <<"I","M","L","P">>>>,
       <<<<"I","A","_","M","I","S","S","_","L","L","C","P","R","E","F","R","F","O">>, <<"I","M","L","R">>>>,
       <<<<"I","A","_","M","I","S","S","_","D","R","D","_","P","R","E","F","_","L","O","C","A","L">>, <<"I","M","D","P","L">>>>,
       <<<<"I","A","_","M","I","S","S","_","D","R","D","_","P","R","E","F","_","R","E","M","O","T","E">>, <<"I","M","D","R","P">>>>,
       <<<<"I","A","_","M","I","S","S","_","C","R","D","_","P","R","E","F">>, <<"I","M","C","P">>>>,
       <<<<"I","A","_","M","I","S","S","_","R","F","O","_","P","R","E","F">>, <<"I","M","R","P">>>>,
       <<<<"I","A","_","M","I","S","S","_","R","F","O">>, <<"I","M","R","F">>>>,
       <<<<"I","A","_","M","I","S","S","_","C","R","D">>, <<"I","M","C">>>>,
       <<<<"I","A","_","M","I","S","S","_","D","R","D">>, <<"I","M","D">>>>,
       <<<<"I","O","_","P","C","I","R","D","C","U","R">>, <<"I","P","C","I">>>>,
       <<<<"I","O","_","I","T","O","M","C","A","C","H","E","N","E","A","R">>, <<"I","I","T","N">>>>,
       <<<<"I","O","_","I","T","O","M">>, <<"I","I","T","O">>>>,
       <<<<"I","M","D","_","O","P","T">>, <<"I","M","D","O">>>> >>

\* the (long form, short form) table, in the order the code applies it
abbreviations ==
    << <<<<"U","N","C","_","C","H","A","_","T","O","R","_","I","N","S","E","R","T","S">>, <<"U","N","C","C","T","I">>>>,
       <<<<"U","N","C","_","C","H","A","_","T","O","R","_","O","C","C","U","P","A","N","C","Y">>, <<"U","N","C","C","T","O">>>>,
       <<<<"U","N","C","_","C","H","A","_","C","L","O","C","K","T","I","C","K","S">>, <<"U","N","C","C","C","T">>>>,
       <<<<"U","N","C","_","M","_","C","A","S","_","C","O","U","N","T","_","S","C","H">>, <<"U","N","C","M","C","C">>>>,
       <<<<"I","A","_","M","I","S","S","_","D","R","D","_","R","E","M","O","T","E">>, <<"I","M","D","R">>>>,
       <<<<"I","A","_","M","I","S","S","_","D","R","D","_","L","O","C","A","L">>, <<"I","M","D","L">>>>,
       <<<<"I","A","_","M","I","S","S","_","L","L","C","P","R","E","F","D","A","T","A">>, <<"I","M","L","P">>>>,
       <<<<"I","A","_","M","I","S","S","_","L","L","C","P","R","E","F","R","F","O">>, <<"I","M","L","R">>>>,
       <<<<"I","A","_","M","I","S","S","_","D","R","D","_","P","R","E","F","_","L","O","C","A","L">>, <<"I","M","D","P","L">>>>,
       <<<<"I","A","_","M","I","S","S","_","D","R","D","_","P","R","E","F","_","R","E","M","O","T","E">>, <<"I","M","D","R","P">>>>,
       <<<<"I","A","_","M","I","S","S","_","C","R","D","_","P","R","E","F">>, <<"I","M","C","P">>>>,
       <<<<"I","A","_","M","I","S","S","_","R","F","O","_","P","R","E","F">>, <<"I","M","R","P">>>>,
       <<<<"I","A","_","M","I","S","S","_","R","F","O">>, <<"I","M","R","F">>>>,
       <<<<"I","A","_","M","I","S","S","_","C","R","D">>, <<"I","M","C">>>>,
       <<<<"I","A","_","M","I","S","S","_","D","R","D">>, <<"I","M","D">>>>,
       <<<<"I","O","_","P","C","I","R","D","C","U","R">>, <<"I","P","C","I">>>>,
       <<<<"I","O","_","I","T","O","M","C","A","C","H","E","N","E","A","R">>, <<"I","I","T","N">>>>,
       <<<<"I","O","_","I","T","O","M">>, <<"I","I","T","O">>>>,
       <<<<"I","M","D","_","O","P","T">>, <<"I","M","D","O">>>> >>

RECURSIVE abbreviateFrom(_, _)
abbreviateFrom(event, k) ==
    IF k > Len(abbreviations) THEN event
    ELSE IF ~Contains(event, abbreviations[k][1])
    THEN abbreviateFrom(event, k + 1)      \* no occurrence: Replace returns event
    ELSE abbreviateFrom(Replace(event, abbreviations[k][1], abbreviations[k][2]),
                        k + 1)

\* for _, abbr := range abbreviations { event = strings.Replace(...) }
abbreviateEventName(event) == abbreviateFrom(event, 1)

-----------------------------------------------------------------------------
(* EventDefinition and parseEventDefinition *)

EventDefinition(raw, name, device, description) ==
    [Raw |-> raw, Name |-> name, Device |-> device, Description |-> description]

\* an event as the x86 loader leaves it: Raw and Name abbreviated, no
\* description
LoadedEvent(raw, name, device) == EventDefinition(raw, name, device, <<>>)

\* the zero value of the struct
ZeroEvent == EventDefinition(<<>>, <<>>, <<>>, <<>>)

\* s[lo:hi] is in range: 0 <= lo <= hi <= len(s); the Go runtime panics
\* otherwise
SliceOk(s, lo, hi) == 0 <= lo /\ lo <= hi /\ hi <= Len(s)

\* s[lo:hi]
Slice(s, lo, hi) == SubSeq(s, lo + 1, hi)

\* outcome "ok": err == nil; "error": err != nil; "panic": a slice
\* expression out of range ended the goroutine
parseEventDefinition(line) ==
    LET fields == Split(line, <<",">>)
        nameField == fields[Len(fields)]
        raw == [ZeroEvent EXCEPT !.Raw = line]
    IN  IF Len(fields) = 1
        THEN [outcome |-> "ok", eventDef |-> [raw EXCEPT !.Name = fields[1]]]
        ELSE IF ~SliceOk(nameField, 0, 5)
        THEN [outcome |-> "panic", eventDef |-> raw]
        ELSE IF Slice(nameField, 0, 5) # <<"n","a","m","e","=">>
        THEN [outcome |-> "error", eventDef |-> raw]
        ELSE IF ~SliceOk(nameField, 6, Len(nameField) - 2)
        THEN [outcome |-> "panic", eventDef |-> raw]
        ELSE [outcome |-> "ok",
              eventDef |-> [raw EXCEPT
                  !.Name = Slice(nameField, 6, Len(nameField) - 2),
                  !.Device = Split(fields[1], <<"/">>)[1]]]

-----------------------------------------------------------------------------
(* isCollectableEvent *)

scopeSystem == "system"
scopeProcess == "process"
scopeCgroup == "cgroup"

Scopes == {scopeSystem, scopeProcess, scopeCgroup}

pebsEventNames == {<<"I","N","T","_","M","I","S","C",".","U","N","K","N","O","W","N","_","B","R","A","N","C","H","_","C","Y","C","L","E","S">>, <<"U","O","P","S","_","R","E","T","I","R","E","D",".","M","S">>}

\* the name has an off-core-response prefix
IsOCRName(name) ==
    HasPrefix(name, <<"O","C","R">>) \/ HasPrefix(name, <<"O","F","F","C","O","R","E","_","R","E","Q","U","E","S","T","S","_","O","U","T","S","T","A","N","D","I","N","G">>)

NarrowScope == flagScope = scopeProcess \/ flagScope = scopeCgroup

\* the uncore rule without the scope test
UncoreDeviceRuleAnyScope(event, metadata) ==
    IF event.Device \notin DOMAIN metadata.UncoreDeviceIDs THEN FALSE
    ELSE IF ~Contains(event.Raw, <<"u","m","a","s","k">>) /\ ~Contains(event.Raw, <<"e","v","e","n","t">>)
    THEN FALSE
    ELSE TRUE

\* the uncore rule of the filter: device known, raw token has its fields
UncoreDeviceRule(event, metadata) ==
    IF NarrowScope THEN FALSE
    ELSE IF event.Device \notin DOMAIN metadata.UncoreDeviceIDs THEN FALSE
    ELSE IF ~Contains(event.Raw, <<"u","m","a","s","k">>) /\ ~Contains(event.Raw, <<"e","v","e","n","t">>)
    THEN FALSE
    ELSE TRUE

\* the deviceless rules with the listing searched for the whole name, modifier
\* suffix included
DevicelessRuleFullName(event, metadata) ==
    IF ~metadata.SupportsRefCycles /\ Contains(event.Name, <<"r","e","f","-","c","y","c","l","e","s">>)
    THEN FALSE
    ELSE IF NarrowScope /\ (Contains(event.Name, <<"c","s","t","a","t","e","_">>)
                            \/ Contains(event.Name, <<"p","o","w","e","r","/","e","n","e","r","g","y">>))
    THEN FALSE
    ELSE Contains(metadata.PerfSupportedEvents, event.Name)

\* the rules for an event without a device
DevicelessRule(event, metadata) ==
    IF ~metadata.SupportsRefCycles /\ Contains(event.Name, <<"r","e","f","-","c","y","c","l","e","s">>)
    THEN FALSE
    ELSE IF NarrowScope /\ (Contains(event.Name, <<"c","s","t","a","t","e","_">>)
                            \/ Contains(event.Name, <<"p","o","w","e","r","/","e","n","e","r","g","y">>))
    THEN FALSE
    ELSE Contains(metadata.PerfSupportedEvents, Split(event.Name, <<":">>)[1])

\* the ordered chain of rules; reads the process-wide flagScope
isCollectableEvent(event, metadata) ==
    IF ~metadata.SupportsFixedTMA
       /\ (event.Name = <<"T","O","P","D","O","W","N",".","S","L","O","T","S">> \/ HasPrefix(event.Name, <<"P","E","R","F","_","M","E","T","R","I","C","S",".">>))
    THEN FALSE
    ELSE IF ~metadata.SupportsPEBS /\ event.Name \in pebsEventNames
    THEN FALSE
    ELSE IF event.Device = <<"c","p","u">> /\ ~IsOCRName(event.Name)
    THEN TRUE
    ELSE IF event.Device = <<"c","p","u">> /\ IsOCRName(event.Name)
    THEN (metadata.SupportsOCR /\ metadata.SupportsUncore) /\ ~NarrowScope
    ELSE IF ~metadata.SupportsUncore /\ HasPrefix(event.Name, <<"U","N","C">>)
    THEN FALSE
    ELSE IF event.Device # <<"c","p","u">> /\ event.Device # <<>>
    THEN UncoreDeviceRule(event, metadata)
    ELSE DevicelessRule(event, metadata)

-----------------------------------------------------------------------------
(* expandUncoreGroup and expandUncoreGroups *)

CharsOf(s) == {s[i] : i \in DOMAIN s}

Digits == <<"0","1","2","3","4","5","6","7","8","9">>

\* \w
WordChars == CharsOf(<<"a","b","c","d","e","f","g","h","i","j","k","l","m","n","o","p","q","r","s","t","u","v","w","x","y","z","A","B","C","D","E","F","G","H","I","J","K","L","M","N","O","P","Q","R","S","T","U","V","W","X","Y","Z","_">>) \cup CharsOf(Digits)

\* [0-9,a-f,A-F]: the class as written holds the comma too
HexClass == CharsOf(<<"0","1","2","3","4","5","6","7","8","9",",","a","b","c","d","e","f","A","B","C","D","E","F">>)

\* fmt.Sprintf("%d", n) for n >= 0
RECURSIVE Itoa(_)
Itoa(n) ==
    IF n < 10 THEN <<Digits[n + 1]>>
    ELSE Itoa(n \div 10) \o <<Digits[(n % 10) + 1]>>

SetMin(S) == CHOOSE x \in S : \A y \in S : x <= y
SetMax(S) == CHOOSE x \in S : \A y \in S : x >= y

\* first position of the run of class characters that ends at j
RunStart(s, j, class) ==
    LET other == {x \in 1..j : s[x] \notin class}
    IN  IF other = {} THEN 1 ELSE SetMax(other) + 1

\* last position of the run of class characters that starts at p
RunEnd(s, p, class) ==
    LET other == {x \in p..Len(s) : s[x] \notin class}
    IN  IF other = {} THEN Len(s) ELSE SetMin(other) - 1

\* positions e of ",name='" that leave 0x and a class character before
\* them (after the "umask=" that follows q) and a closing quote after them
NameStarts(s, q) ==
    {e \in (q + 10)..Len(s) :
        /\ MatchAt(s, <<",","n","a","m","e","=","'">>, e)
        /\ \E t \in (e + 7)..Len(s) : s[t] = "'"}

\* positions q of ",umask=0x" that end a non-empty run of class characters
\* begun at p, and from which the rest of the pattern matches
UmaskStarts(s, p) ==
    {q \in (p + 1)..(RunEnd(s, p, HexClass) + 1) :
        /\ MatchAt(s, <<",","u","m","a","s","k","=","0","x">>, q)
        /\ q + 9 <= Len(s) /\ s[q + 9] \in HexClass
        /\ NameStarts(s, q) # {}}

\* positions j of "/event=0x" from which the whole pattern matches
EventStarts(s) ==
    {j \in 2..Len(s) :
        /\ MatchAt(s, <<"/","e","v","e","n","t","=","0","x">>, j)
        /\ s[j - 1] \in WordChars
        /\ UmaskStarts(s, j + 9) # {}}

\* re.FindStringSubmatch(raw) for the pattern
\*   (\w+)/event=(0x[0-9,a-f,A-F]+),umask=(0x[0-9,a-f,A-F]+.*),name='(.*)'
\* <<>> when there is no match, else the four submatches of the leftmost
\* match, every repetition as long as the rest of the pattern allows
FindStringSubmatch(s) ==
    LET starts == EventStarts(s)
    IN  IF starts = {} THEN <<>>
    ELSE LET j == SetMin(starts)
             i == RunStart(s, j - 1, WordChars)
             q == SetMax(UmaskStarts(s, j + 9))
             e == SetMax(NameStarts(s, q))
             t == SetMax({x \in (e + 7)..Len(s) : s[x] = "'"})
         IN  << SubSeq(s, i, j - 1), SubSeq(s, j + 7, q - 1),
                SubSeq(s, q + 7, e - 1), SubSeq(s, e + 7, t - 1) >>

\* an expansion that leaves the instance id out of name and unit
ExpandedEventNoID(event, match, deviceID, vendor) ==
    LET name == match[4]
    IN  EventDefinition(
            <<"u","n","c","o","r","e","_">> \o match[1] \o <<"/","e","v","e","n","t","=">> \o match[2] \o <<",","u","m","a","s","k","=">>
                \o match[3] \o <<",","n","a","m","e","=","'">> \o name \o <<"'","/">>,
            name, event.Device, <<>>)

\* the new event of one instance, by vendor
ExpandedEvent(event, match, deviceID, vendor) ==
    IF vendor = "AuthenticAMD"
    THEN LET name == match[4]
         IN  EventDefinition(
                 <<"a","m","d","_">> \o match[1] \o <<"/","e","v","e","n","t","=">> \o match[2] \o <<",","u","m","a","s","k","=">>
                     \o match[3] \o <<",","n","a","m","e","=","'">> \o name \o <<"'","/">>,
                 name, event.Device, <<>>)
    ELSE LET name == match[4] \o <<".">> \o Itoa(deviceID)
         IN  EventDefinition(
                 <<"u","n","c","o","r","e","_">> \o match[1] \o <<"_">> \o Itoa(deviceID) \o <<"/","e","v","e","n","t","=">>
                     \o match[2] \o <<",","u","m","a","s","k","=">> \o match[3] \o <<",","n","a","m","e","=","'">>
                     \o name \o <<"'","/">>,
                 name, event.Device, <<>>)

\* the inner loop over the events of the group: the new group, or "err" at
\* the first raw token the pattern does not match
RECURSIVE ExpandEvents(_, _, _, _, _)
ExpandEvents(group, deviceID, vendor, k, newGroup) ==
    IF k > Len(group) THEN [group |-> newGroup, err |-> FALSE]
    ELSE LET match == FindStringSubmatch(group[k].Raw)
         IN  IF Len(match) = 0 THEN [group |-> newGroup, err |-> TRUE]
             ELSE ExpandEvents(group, deviceID, vendor, k + 1,
                      Append(newGroup, ExpandedEvent(group[k], match, deviceID, vendor)))

\* the outer loop over the device ids; an error returns the groups so far
RECURSIVE ExpandDevices(_, _, _, _, _)
ExpandDevices(group, ids, vendor, d, groups) ==
    IF d > Len(ids) THEN [groups |-> groups, err |-> FALSE]
    ELSE LET r == ExpandEvents(group, ids[d], vendor, 1, <<>>)
         IN  IF r.err THEN [groups |-> groups, err |-> TRUE]
             ELSE ExpandDevices(group, ids, vendor, d + 1, Append(groups, r.group))

expandUncoreGroup(group, ids, vendor) == ExpandDevices(group, ids, vendor, 1, <<>>)

\* the loop over the groups with a group of a device type without instances
\* passed through
RECURSIVE ExpandGroupsKeepingAll(_, _, _, _)
ExpandGroupsKeepingAll(groups, metadata, g, expandedGroups) ==
    IF g > Len(groups)
    THEN [outcome |-> "ok", groups |-> expandedGroups, err |-> FALSE]
    ELSE IF Len(groups[g]) = 0
    THEN [outcome |-> "panic", groups |-> expandedGroups, err |-> FALSE]
    ELSE LET group == groups[g]
             device == group[1].Device
         IN  IF device \in DOMAIN metadata.UncoreDeviceIDs
             THEN IF Len(metadata.UncoreDeviceIDs[device]) = 0
                  THEN ExpandGroupsKeepingAll(groups, metadata, g + 1,
                                              Append(expandedGroups, group))
                  ELSE LET r == expandUncoreGroup(group,
                                    metadata.UncoreDeviceIDs[device], metadata.Vendor)
                       IN  IF r.err
                           THEN [outcome |-> "ok", groups |-> expandedGroups,
                                 err |-> TRUE]
                           ELSE ExpandGroupsKeepingAll(groups, metadata, g + 1,
                                                 expandedGroups \o r.groups)
             ELSE ExpandGroupsKeepingAll(groups, metadata, g + 1,
                                   Append(expandedGroups, group))

\* the loop over the groups; an error returns the expanded groups so far
\* outcome "panic": group[0] of an empty group is out of range
RECURSIVE ExpandGroupsFrom(_, _, _, _)
ExpandGroupsFrom(groups, metadata, g, expandedGroups) ==
    IF g > Len(groups)
    THEN [outcome |-> "ok", groups |-> expandedGroups, err |-> FALSE]
    ELSE IF Len(groups[g]) = 0
    THEN [outcome |-> "panic", groups |-> expandedGroups, err |-> FALSE]
    ELSE LET group == groups[g]
             device == group[1].Device
         IN  IF device \in DOMAIN metadata.UncoreDeviceIDs
             THEN IF Len(metadata.UncoreDeviceIDs[device]) = 0
                  THEN ExpandGroupsFrom(groups, metadata, g + 1, expandedGroups)
                  ELSE LET r == expandUncoreGroup(group,
                                    metadata.UncoreDeviceIDs[device], metadata.Vendor)
                       IN  IF r.err
                           THEN [outcome |-> "ok", groups |-> expandedGroups,
                                 err |-> TRUE]
                           ELSE ExpandGroupsFrom(groups, metadata, g + 1,
                                                 expandedGroups \o r.groups)
             ELSE ExpandGroupsFrom(groups, metadata, g + 1,
                                   Append(expandedGroups, group))

expandUncoreGroups(groups, metadata) == ExpandGroupsFrom(groups, metadata, 1, <<>>)

-----------------------------------------------------------------------------
(* Metadata values *)

\* the instance ids 0 .. NumInstances-1 of a device type
InstanceIDs == [i \in 1..NumInstances |-> i - 1]

\* cha has instances, imc is known but has none
Inventory == (<<"c","h","a">> :> InstanceIDs) @@ (<<"i","m","c">> :> <<>>)

\* the perf list output: every event name of the catalogs but "instructions"
PerfList ==
    <<"c","p","u","-","c","y","c","l","e","s",",","r","e","f","-","c","y","c","l","e","s",",","c","s","t","a","t","e","_","c","o","r","e","/","c","6","-","r","e","s","i","d","e","n","c","y","/",",","p","o","w","e","r","/","e","n","e","r","g","y","-","p","k","g","/",",","C","P","U","_","C","L","K",",","T","O","P","D","O","W","N",".","S","L","O","T","S",",","U","O","P","S","_","R","E","T","I","R","E","D",".","M","S",",","O","C","R",".","R","E","A","D","S",",","U","N","C","C","T","I",".","I","M","C",",","U","N","C","M","C","C","0",".","R","D",",","U","N","C","_","U","P","I","_","C","L","K",",","U","N","C","_","C","H","A","_","X",",","U","N","C","_","C","H","A","_","Y",",","P","E","R","F","_","M","E","T","R","I","C","S",",","C","P","U","_","C","Y","C","L","E","S",",","I","N","S","T","_","R","E","T","I","R","E","D",",","O","C","R","_","X">>

Platforms ==
    { [Architecture |-> "x86_64", Vendor |-> "GenuineIntel",
       UncoreDeviceIDs |-> Inventory, PerfSupportedEvents |-> PerfList],
      [Architecture |-> "x86_64", Vendor |-> "AuthenticAMD",
       UncoreDeviceIDs |-> Inventory, PerfSupportedEvents |-> PerfList],
      [Architecture |-> "aarch64", Vendor |-> "ARM",
       UncoreDeviceIDs |-> <<>>, PerfSupportedEvents |-> PerfList] }

Metadata(platform, tma, pebs, ocr, uncore, refcycles) ==
    [Architecture |-> platform.Architecture,
     Vendor |-> platform.Vendor,
     UncoreDeviceIDs |-> platform.UncoreDeviceIDs,
     PerfSupportedEvents |-> platform.PerfSupportedEvents,
     SupportsFixedTMA |-> tma, SupportsPEBS |-> pebs, SupportsOCR |-> ocr,
     SupportsUncore |-> uncore, SupportsRefCycles |-> refcycles]

MetadataSet ==
    {Metadata(p, tma, pebs, ocr, uncore, refcycles) :
        p \in Platforms, tma \in BOOLEAN, pebs \in BOOLEAN, ocr \in BOOLEAN,
        uncore \in BOOLEAN, refcycles \in BOOLEAN}

-----------------------------------------------------------------------------
(* Idle values of the components a specification does not exercise *)

NoString == <<>>

IdleMd == [Architecture |-> "none"]
IdleAb == [pc |-> "idle"]
IdlePe == [pc |-> "idle"]
IdleCe == [pc |-> "idle"]
IdleEx == [pc |-> "idle"]
IdleLd == [pc |-> "idle"]
IdleTc == [pc |-> "idle"]
IdlePa == [pc |-> "idle"]

-----------------------------------------------------------------------------
(* The abbreviator applied once and twice to an input *)

\* pieces of event names: long forms, their tails, and neutral text
AbbrFragments ==
    { <<"U","N","C","_","C","H","A","_","T","O","R","_","I","N","S","E","R","T","S">>, <<"U","N","C","_","M","_","C","A","S","_","C","O","U","N","T","_","S","C","H">>, <<"I","A","_","M","I","S","S","_","D","R","D">>,
      <<"I","A","_","M","I","S","S","_","C","R","D">>, <<"I","O","_","P","C","I","R","D","C","U","R">>, <<"I","O","_","I","T","O","M">>, <<"I","M","D">>, <<"_","O","P","T">>,
      <<"_","R","E","M","O","T","E">>, <<"_","P","R","E","F">>, <<"C","A","C","H","E","N","E","A","R">>, <<"A","_","M","I","S","S","_","D","R","D">>, <<"O","_","P","C","I","R","D","C","U","R">>,
      <<".">>, <<"X">>, <<"U","N","C">> }

RECURSIVE ConcatsOf(_)
ConcatsOf(n) ==
    IF n = 0 THEN {<<>>}
    ELSE LET shorter == ConcatsOf(n - 1)
         IN  shorter \cup {p \o f : p \in shorter, f \in AbbrFragments}

AbbrInputs == ConcatsOf(MaxAbbrParts)

InitAbbr ==
    /\ md = IdleMd /\ flagScope = scopeSystem
    /\ pe = IdlePe /\ ce = IdleCe /\ ex = IdleEx /\ ld = IdleLd
    /\ tc = IdleTc /\ pa = IdlePa
    /\ \E s \in AbbrInputs :
          ab = [pc |-> "in", in |-> s, once |-> NoString, twice |-> NoString]

AbbreviateOnce ==
    /\ ab.pc = "in"
    /\ ab' = [ab EXCEPT !.pc = "once", !.once = abbreviateEventName(ab.in)]
    /\ UNCHANGED <<md, flagScope, pe, ce, ex, ld, tc, pa>>

AbbreviateTwice ==
    /\ ab.pc = "once"
    /\ ab' = [ab EXCEPT !.pc = "twice", !.twice = abbreviateEventName(ab.once)]
    /\ UNCHANGED <<md, flagScope, pe, ce, ex, ld, tc, pa>>

NextAbbr == AbbreviateOnce \/ AbbreviateTwice

SpecAbbr == InitAbbr /\ [][NextAbbr]_vars

-----------------------------------------------------------------------------
(* The parser applied to a line *)

ParseFields ==
    { <<"c","p","u","/","e","v","e","n","t","=","0","x","3","c">>, <<"u","m","a","s","k","=","0","x","0">>, <<"n","a","m","e","=","'","A","'","/">>, <<"n","a","m","e","=">>, <<"n","a","m","e","=","'","'">>,
      <<"n","a","m">>, <<>>, <<"b">>, <<"c","p","u","-","c","y","c","l","e","s">> }

RECURSIVE JoinedFields(_)
JoinedFields(n) ==
    IF n = 1 THEN ParseFields
    ELSE LET shorter == JoinedFields(n - 1)
         IN  shorter \cup {p \o <<",">> \o f : p \in shorter, f \in ParseFields}

ParseLines == JoinedFields(MaxParseFields)

InitParse ==
    /\ md = IdleMd /\ flagScope = scopeSystem
    /\ ab = IdleAb /\ ce = IdleCe /\ ex = IdleEx /\ ld = IdleLd
    /\ tc = IdleTc /\ pa = IdlePa
    /\ \E line \in ParseLines :
          pe = [pc |-> "in", line |-> line, outcome |-> "none",
                eventDef |-> ZeroEvent]

ParseLine ==
    /\ pe.pc = "in"
    /\ LET r == parseEventDefinition(pe.line)
       IN  pe' = [pe EXCEPT !.pc = "done", !.outcome = r.outcome,
                            !.eventDef = r.eventDef]
    /\ UNCHANGED <<md, flagScope, ab, ce, ex, ld, tc, pa>>

NextParse == ParseLine

SpecParse == InitParse /\ [][NextParse]_vars

-----------------------------------------------------------------------------
(* Catalog content the loaders and the filter are exercised on *)

\* x86 catalog lines, trimmed, each ending in its separator
LoaderLines ==
    << <<"c","p","u","/","e","v","e","n","t","=","0","x","3","c",",","u","m","a","s","k","=","0","x","0",",","n","a","m","e","=","'","C","P","U","_","C","L","K","'","/",",">>,
       <<"c","p","u","/","e","v","e","n","t","=","0","x","0","0",",","u","m","a","s","k","=","0","x","0","4",",","n","a","m","e","=","'","T","O","P","D","O","W","N",".","S","L","O","T","S","'","/",";">>,
       <<"c","h","a","/","u","m","a","s","k","=","0","x","2","1",",","n","a","m","e","=","'","U","N","C","_","C","H","A","_","X","'","/",";">>,
       <<"c","p","u","/","e","v","e","n","t","=","0","x","2","a",",","u","m","a","s","k","=","0","x","0","1",",","n","a","m","e","=","'","O","C","R",".","R","E","A","D","S","'","/",";">>,
       <<"c","h","a","/","e","v","e","n","t","=","0","x","3","5",",","u","m","a","s","k","=","0","x","c","8",",","n","a","m","e","=","'","U","N","C","_","C","H","A","_","T","O","R","_","I","N","S","E","R","T","S",".","I","A","_","M","I","S","S","_","C","R","D","'","/",",">>,
       <<"c","h","a","/","e","v","e","n","t","=","0","x","3","5",",","u","m","a","s","k","=","0","x","c","8",",","n","a","m","e","=","'","U","N","C","_","C","H","A","_","T","O","R","_","I","N","S","E","R","T","S",".","I","A","_","M","I","S","S","_","C","R","D","'","/",";">>,
       <<"i","m","c","/","e","v","e","n","t","=","0","x","0","5",",","u","m","a","s","k","=","0","x","c","f",",","n","a","m","e","=","'","U","N","C","_","M","_","C","A","S","_","C","O","U","N","T","_","S","C","H","0",".","R","D","'","/",";">>,
       <<"c","h","a","/","e","v","e","n","t","=","0","x","1",",","u","m","a","s","k","=","0","x","2",",","n","a","m","e","=","'","P","E","R","F","_","M","E","T","R","I","C","S","'","/",";">>,
       <<"c","p","u","-","c","y","c","l","e","s",":","k",";">>,
       <<"i","n","s","t","r","u","c","t","i","o","n","s",";">>,
       <<"c","h","a","/","e","v","e","n","t","=","0","x","1",",","u","m","a","s","k","=","0","x","2",",">>,
       <<"c","p","u","/","e","v","e","n","t","=","0","x","1",",","n","a","m",";">> >>

\* further lines the filter alone is run on
FilterLines ==
    << <<"c","p","u","/","e","v","e","n","t","=","0","x","a","e",",","u","m","a","s","k","=","0","x","0","2",",","n","a","m","e","=","'","U","O","P","S","_","R","E","T","I","R","E","D",".","M","S","'","/",";">>,
       <<"u","p","i","/","e","v","e","n","t","=","0","x","0","1",",","u","m","a","s","k","=","0","x","0","f",",","n","a","m","e","=","'","U","N","C","_","U","P","I","_","C","L","K","'","/",";">>,
       <<"c","h","a","/","c","o","n","f","i","g","=","0","x","1",",","n","a","m","e","=","'","U","N","C","_","C","H","A","_","Y","'","/",";">>,
       <<"r","e","f","-","c","y","c","l","e","s",";">>,
       <<"c","s","t","a","t","e","_","c","o","r","e","/","c","6","-","r","e","s","i","d","e","n","c","y","/",";">>,
       <<"p","o","w","e","r","/","e","n","e","r","g","y","-","p","k","g","/",";">> >>

CatalogLines == LoaderLines \o FilterLines

\* parseEventDefinition(line[:len(line)-1]), then Name and Raw abbreviated
ScanBody(body) ==
    LET r == parseEventDefinition(body)
    IN  IF r.outcome # "ok" THEN r
        ELSE [outcome |-> "ok",
              eventDef |-> [r.eventDef EXCEPT
                  !.Name = abbreviateEventName(r.eventDef.Name),
                  !.Raw = abbreviateEventName(r.eventDef.Raw)]]

\* ScanBody of every catalog line, computed once
Scanned ==
    [i \in DOMAIN CatalogLines |->
        ScanBody(Slice(CatalogLines[i], 0, Len(CatalogLines[i]) - 1))]

\* ARM records: EventDefinition{Name: n, Raw: n, Device: "cpu", Description: d}
\* the event built with its name passed through the abbreviator
ArmEventAbbreviated(n, d) ==
    EventDefinition(n, abbreviateEventName(n), <<"c","p","u">>, d)

ArmEvent(n, d) == EventDefinition(n, n, <<"c","p","u">>, d)

ArmNames == {<<"C","P","U","_","C","Y","C","L","E","S">>, <<"I","N","S","T","_","R","E","T","I","R","E","D">>, <<"I","O","_","I","T","O","M","_","X">>, <<"O","C","R","_","X">>, <<"T","O","P","D","O","W","N",".","S","L","O","T","S">>}

FilterEvents ==
    { LoadedEvent(<<"r","e","f","-","c","y","c","l","e","s">>, <<"r","e","f","-","c","y","c","l","e","s">>, <<>>),
      LoadedEvent(<<"i","n","s","t","r","u","c","t","i","o","n","s">>, <<"i","n","s","t","r","u","c","t","i","o","n","s">>, <<>>),
      LoadedEvent(<<"c","p","u","-","c","y","c","l","e","s",":","k">>, <<"c","p","u","-","c","y","c","l","e","s",":","k">>, <<>>),
      LoadedEvent(<<"p","o","w","e","r","/","e","n","e","r","g","y","-","p","k","g","/">>, <<"p","o","w","e","r","/","e","n","e","r","g","y","-","p","k","g","/">>, <<>>),
      LoadedEvent(<<"c","s","t","a","t","e","_","c","o","r","e","/","c","6","-","r","e","s","i","d","e","n","c","y","/">>, <<"c","s","t","a","t","e","_","c","o","r","e","/","c","6","-","r","e","s","i","d","e","n","c","y","/">>, <<>>),
      LoadedEvent(<<"c","h","a","/","u","m","a","s","k","=","0","x","2","1",",","n","a","m","e","=","'","U","N","C","_","C","H","A","_","X","'","/">>, <<"U","N","C","_","C","H","A","_","X">>, <<"c","h","a">>),
      LoadedEvent(<<"c","h","a","/","c","o","n","f","i","g","=","0","x","1",",","n","a","m","e","=","'","U","N","C","_","C","H","A","_","Y","'","/">>, <<"U","N","C","_","C","H","A","_","Y">>, <<"c","h","a">>),
      LoadedEvent(<<"c","p","u","/","e","v","e","n","t","=","0","x","3","c",",","u","m","a","s","k","=","0","x","0",",","n","a","m","e","=","'","C","P","U","_","C","L","K","'","/">>, <<"C","P","U","_","C","L","K">>, <<"c","p","u">>),
      LoadedEvent(<<"c","p","u","/","e","v","e","n","t","=","0","x","2","a",",","u","m","a","s","k","=","0","x","0","1",",","n","a","m","e","=","'","O","C","R",".","R","E","A","D","S","'","/">>, <<"O","C","R",".","R","E","A","D","S">>, <<"c","p","u">>),
      LoadedEvent(<<"i","m","c","/","e","v","e","n","t","=","0","x","0","5",",","u","m","a","s","k","=","0","x","c","f",",","n","a","m","e","=","'","U","N","C","M","C","C","0",".","R","D","'","/">>, <<"U","N","C","M","C","C","0",".","R","D">>, <<"i","m","c">>),
      LoadedEvent(<<"c","h","a","/","e","v","e","n","t","=","0","x","3","5",",","u","m","a","s","k","=","0","x","c","8",",","n","a","m","e","=","'","U","N","C","C","T","I",".","I","M","C","'","/">>, <<"U","N","C","C","T","I",".","I","M","C">>, <<"c","h","a">>),
      LoadedEvent(<<"c","h","a","/","e","v","e","n","t","=","0","x","1",",","u","m","a","s","k","=","0","x","2",",","n","a","m","e","=","'","P","E","R","F","_","M","E","T","R","I","C","S","'","/">>, <<"P","E","R","F","_","M","E","T","R","I","C","S">>, <<"c","h","a">>),
      LoadedEvent(<<"u","p","i","/","e","v","e","n","t","=","0","x","0","1",",","u","m","a","s","k","=","0","x","0","f",",","n","a","m","e","=","'","U","N","C","_","U","P","I","_","C","L","K","'","/">>, <<"U","N","C","_","U","P","I","_","C","L","K">>, <<"u","p","i">>),
      LoadedEvent(<<"c","p","u","/","e","v","e","n","t","=","0","x","0","0",",","u","m","a","s","k","=","0","x","0","4",",","n","a","m","e","=","'","T","O","P","D","O","W","N",".","S","L","O","T","S","'","/">>, <<"T","O","P","D","O","W","N",".","S","L","O","T","S">>, <<"c","p","u">>),
      LoadedEvent(<<"c","p","u","/","e","v","e","n","t","=","0","x","a","e",",","u","m","a","s","k","=","0","x","0","2",",","n","a","m","e","=","'","U","O","P","S","_","R","E","T","I","R","E","D",".","M","S","'","/">>, <<"U","O","P","S","_","R","E","T","I","R","E","D",".","M","S">>, <<"c","p","u">>) }
    \cup {ArmEvent(n, <<"d">>) : n \in ArmNames}

-----------------------------------------------------------------------------
(* The filter applied to an event *)

InitFilter ==
    /\ ab = IdleAb /\ pe = IdlePe /\ ex = IdleEx /\ ld = IdleLd
    /\ tc = IdleTc /\ pa = IdlePa
    /\ md \in MetadataSet
    /\ flagScope \in Scopes
    /\ \E e \in FilterEvents : ce = [pc |-> "in", event |-> e, result |-> FALSE]

FilterEvent ==
    /\ ce.pc = "in"
    /\ ce' = [ce EXCEPT !.pc = "done",
                        !.result = isCollectableEvent(ce.event, md)]
    /\ UNCHANGED <<md, flagScope, ab, pe, ex, ld, tc, pa>>

NextFilter == FilterEvent

SpecFilter == InitFilter /\ [][NextFilter]_vars

-----------------------------------------------------------------------------
(* C7 *)

\* C7: in system-wide scope an event of a device other than "" and "cpu" is
\* accepted only if the device is a key of the inventory and the raw token
\* contains both "umask" and "event".
C7_BothFields ==
    (/\ ce.pc = "done"
     /\ flagScope = scopeSystem
     /\ ce.event.Device # <<>> /\ ce.event.Device # <<"c","p","u">>
     /\ ce.result)
    => /\ ce.event.Device \in DOMAIN md.UncoreDeviceIDs
       /\ Contains(ce.event.Raw, <<"u","m","a","s","k">>)
       /\ Contains(ce.event.Raw, <<"e","v","e","n","t">>)

-----------------------------------------------------------------------------
(* The expander applied to one group *)

\* uncore events as the x86 loader hands them on; the third has no event
\* field and does not match the pattern
ExpandEventPool ==
    { LoadedEvent(<<"c","h","a","/","e","v","e","n","t","=","0","x","3","5",",","u","m","a","s","k","=","0","x","c","8",",","n","a","m","e","=","'","U","N","C","C","T","I",".","I","M","C","'","/">>, <<"U","N","C","C","T","I",".","I","M","C">>, <<"c","h","a">>),
      LoadedEvent(<<"c","h","a","/","e","v","e","n","t","=","0","x","3","6",",","u","m","a","s","k","=","0","x","2","1",",","c","o","n","f","i","g","1","=","0","x","4","0","4","3","3",",","n","a","m","e","=","'","U","N","C","C","T","O",".","I","A","_","M","I","S","S","'","/">>, <<"U","N","C","C","T","O",".","I","A","_","M","I","S","S">>, <<"c","h","a">>),
      LoadedEvent(<<"c","h","a","/","u","m","a","s","k","=","0","x","2","1",",","n","a","m","e","=","'","U","N","C","_","C","H","A","_","X","'","/">>, <<"U","N","C","_","C","H","A","_","X">>, <<"c","h","a">>) }

ExpandInputGroups ==
    UNION {[1..n -> ExpandEventPool] : n \in 1..MaxGroupEvents}

\* the first k instance ids
FirstIDs(k) == [i \in 1..k |-> i - 1]

InitExpand ==
    /\ md = IdleMd /\ flagScope = scopeSystem
    /\ ab = IdleAb /\ pe = IdlePe /\ ce = IdleCe /\ ld = IdleLd
    /\ tc = IdleTc /\ pa = IdlePa
    /\ \E g \in ExpandInputGroups, k \in 0..NumInstances,
          v \in {"GenuineIntel", "AuthenticAMD"} :
          ex = [pc |-> "in", group |-> g, ids |-> FirstIDs(k), vendor |-> v,
                groups |-> <<>>, err |-> FALSE]

ExpandGroup ==
    /\ ex.pc = "in"
    /\ LET r == expandUncoreGroup(ex.group, ex.ids, ex.vendor)
       IN  ex' = [ex EXCEPT !.pc = "done", !.groups = r.groups, !.err = r.err]
    /\ UNCHANGED <<md, flagScope, ab, pe, ce, ld, tc, pa>>

NextExpand == ExpandGroup

SpecExpand == InitExpand /\ [][NextExpand]_vars

-----------------------------------------------------------------------------
(* C3 *)

\* every raw token of the group has the shape the pattern expects
AllMatch(group) ==
    \A k \in DOMAIN group : FindStringSubmatch(group[k].Raw) # <<>>

\* k groups, each with as many events as the input
KGroupsOfSameSize ==
    /\ Len(ex.groups) = Len(ex.ids)
    /\ \A a \in DOMAIN ex.groups : Len(ex.groups[a]) = Len(ex.group)

\* no name and no raw token occurs in two of the output groups
DistinctAcrossGroups ==
    \A a, b \in DOMAIN ex.groups :
        a # b => \A i \in DOMAIN ex.groups[a], j \in DOMAIN ex.groups[b] :
                    /\ ex.groups[a][i].Name # ex.groups[b][j].Name
                    /\ ex.groups[a][i].Raw # ex.groups[b][j].Raw

\* C3 as stated: for every vendor, expanding a group for k instances yields
\* k groups of the input's size with pairwise distinct names and raw tokens.
C3_DistinctEveryVendor ==
    (ex.pc = "done" /\ AllMatch(ex.group))
    => (KGroupsOfSameSize /\ DistinctAcrossGroups)

\* C3 amended: expanding a group whose raw tokens match the pattern for k
\* distinct instance ids yields k groups of the input's size; for a vendor
\* other than AMD their names and raw tokens are pairwise distinct, for AMD
\* the k groups are equal.
C3_KGroups ==
    (ex.pc = "done" /\ AllMatch(ex.group))
    => /\ KGroupsOfSameSize
       /\ ~ex.err
       /\ ex.vendor # "AuthenticAMD" => DistinctAcrossGroups
       /\ ex.vendor = "AuthenticAMD"
            => \A a, b \in DOMAIN ex.groups : ex.groups[a] = ex.groups[b]

\* a two-event group expanded for two instances of a non-AMD device, the
\* first event becoming uncore_cha_1/...,name='UNCCTI.IMC.1'/
C3_Witness ==
    /\ ex.pc = "done"
    /\ ex.vendor = "GenuineIntel"
    /\ Len(ex.group) = 2 /\ Len(ex.ids) = 2 /\ Len(ex.groups) = 2
    /\ ex.groups[2][1].Name = <<"U","N","C","C","T","I",".","I","M","C",".","1">>
    /\ ex.groups[2][1].Raw = <<"u","n","c","o","r","e","_","c","h","a","_","1","/","e","v","e","n","t","=","0","x","3","5",",","u","m","a","s","k","=","0","x","c","8",",","n","a","m","e","=","'","U","N","C","C","T","I",".","I","M","C",".","1","'","/">>
    /\ ex.groups[1][2].Raw
         = <<"u","n","c","o","r","e","_","c","h","a","_","0","/","e","v","e","n","t","=","0","x","3","6",",","u","m","a","s","k","=","0","x","2","1",",","c","o","n","f","i","g","1","=","0","x","4","0","4","3","3",",","n","a","m","e","=","'","U","N","C","C","T","O",".","I","A","_","M","I","S","S",".","0","'","/">>

-----------------------------------------------------------------------------
(* LoadEventGroups and LoadArmEventGroups *)

\* err values, by the statement that sets them
ErrNil == "nil"
ErrOpen == "open"            \* os.Open / resources.Open
ErrFormat == "format"        \* parseEventDefinition
ErrScanner == "scanner"      \* scanner.Err()
ErrRegex == "regex"          \* expandUncoreGroup
ErrReadDir == "readdir"      \* os.Stat, not a directory, ReadDir, lookupArmVariant
ErrReadFile == "ReadFile"    \* os.ReadFile / resources.ReadFile
ErrUnmarshal == "Unmarshal"  \* json.Unmarshal

IsArm == md.Architecture = "arm64" \/ md.Architecture = "aarch64"

\* a loader that puts every event into the group
AddEventAlways(group, event, collectable) == Append(group, event)

\* if isCollectableEvent(event, metadata) { group = append(group, event) }
AddEvent(group, event, collectable) ==
    IF collectable THEN Append(group, event) ELSE group

\* ... else { uncollectable.Add(event.Name) }
AddUncollectable(uncollectable, event, collectable) ==
    IF collectable THEN uncollectable ELSE uncollectable \cup {event.Name}

\* a loader that appends the group without looking at its length
FlushGroupAlways(groups, group) == Append(groups, group)

\* if len(group) > 0 { groups = append(groups, group) } else { slog.Warn(...) }
FlushGroup(groups, group) ==
    IF Len(group) > 0 THEN Append(groups, group) ELSE groups

\* records of an ARM JSON file
ArmRecord(n) == [ArchStdEvent |-> n, PublicDescription |-> <<"d">>]

\* the record arrays of the .json files that parse
ArmFileContents ==
    { <<>>,
      <<ArmRecord(<<"C","P","U","_","C","Y","C","L","E","S">>)>>,
      <<ArmRecord(<<"C","P","U","_","C","Y","C","L","E","S">>), ArmRecord(<<"I","O","_","I","T","O","M","_","X">>)>>,
      <<ArmRecord(<<"O","C","R","_","X">>)>>,
      <<ArmRecord(<<"T","O","P","D","O","W","N",".","S","L","O","T","S">>), ArmRecord(<<"I","N","S","T","_","R","E","T","I","R","E","D">>)>>,
      <<ArmRecord(<<"T","O","P","D","O","W","N",".","S","L","O","T","S">>), ArmRecord(<<"O","C","R","_","X">>)>> }

\* the metadata the loader is run under: no line of LoaderLines and no ARM
\* record is a PEBS or a ref-cycles event, so the two flags are switched
\* together
LoaderMetadata == {m \in MetadataSet : m.SupportsPEBS = m.SupportsRefCycles}

InitLoad ==
    /\ ab = IdleAb /\ pe = IdlePe /\ ce = IdleCe /\ ex = IdleEx
    /\ tc = IdleTc /\ pa = IdlePa
    /\ md \in LoaderMetadata
    /\ flagScope \in Scopes
    /\ ld = [pc |-> "start",
             line |-> <<>>,               \* the last data line scanned
             group |-> <<>>,              \* the current group
             groups |-> <<>>,             \* named result groups
             uncollectable |-> {},        \* the local set of names
             uncollectableEvents |-> {},  \* named result, nil until assigned
             err |-> ErrNil,              \* named result err
             nread |-> 0,                 \* lines or directory entries read
             files |-> <<>>,              \* history: the record arrays loaded
             pending |-> <<>>,            \* history: events read since the last ';'
             closed |-> <<>>,             \* history: the groups closed by a ';'
             seen |-> {},                 \* history: the events built so far
             dropped |-> 0]               \* history: "No collectable events" warnings

\* the catalog file is opened and a scanner set up
OpenCatalog ==
    /\ ld.pc = "start" /\ ~IsArm
    /\ ld' = [ld EXCEPT !.pc = "scan"]
    /\ UNCHANGED <<md, flagScope, ab, pe, ce, ex, tc, pa>>

\* the catalog file cannot be opened
OpenCatalogFails ==
    /\ ld.pc = "start" /\ ~IsArm
    /\ ld' = [ld EXCEPT !.pc = "done", !.err = ErrOpen]
    /\ UNCHANGED <<md, flagScope, ab, pe, ce, ex, tc, pa>>

\* a blank line or a line starting with '#': continue
ScanSkip ==
    /\ ld.pc = "scan" /\ ld.nread < MaxLines
    /\ ld' = [ld EXCEPT !.nread = @ + 1]
    /\ UNCHANGED <<md, flagScope, ab, pe, ce, ex, tc, pa>>

\* history: the lines read since the last ';' and up to a ';' form a group of
\* their collectable events, unless there is none
ClosedBy(closed, events) ==
    LET kept == SelectSeq(events, LAMBDA e : isCollectableEvent(e, md))
    IN  IF kept = <<>> THEN closed ELSE Append(closed, kept)

\* one pass of the scanner loop on a data line; r is the line without its
\* last character, parsed, then abbreviated
ScanDataLine(line, r) ==
    IF r.outcome = "panic"
    THEN ld' = [ld EXCEPT !.pc = "panic", !.line = line, !.nread = @ + 1]
    ELSE IF r.outcome = "error"
    THEN ld' = [ld EXCEPT !.pc = "done", !.err = ErrFormat, !.line = line,
                          !.nread = @ + 1]
    ELSE LET event == r.eventDef
             collectable == isCollectableEvent(event, md)
             group == AddEvent(ld.group, event, collectable)
             endOfGroup == line[Len(line)] = ";"
         IN  ld' = [ld EXCEPT
                 !.line = line,
                 !.nread = @ + 1,
                 !.seen = @ \cup {event},
                 !.uncollectable = AddUncollectable(@, event, collectable),
                 !.groups = IF endOfGroup THEN FlushGroup(@, group) ELSE @,
                 !.pending = IF endOfGroup THEN <<>> ELSE Append(@, event),
                 !.closed = IF endOfGroup
                            THEN ClosedBy(@, Append(ld.pending, event))
                            ELSE @,
                 !.dropped = IF endOfGroup /\ Len(group) = 0 THEN @ + 1 ELSE @,
                 !.group = IF endOfGroup THEN <<>> ELSE group]

ScanLine ==
    /\ ld.pc = "scan" /\ ld.nread < MaxLines
    /\ \E i \in DOMAIN LoaderLines : ScanDataLine(LoaderLines[i], Scanned[i])
    /\ UNCHANGED <<md, flagScope, ab, pe, ce, ex, tc, pa>>

\* a loader that closes the current group at the end of the file
GroupsAtEOFFlushed(groups, group) == FlushGroup(groups, group)

\* the groups handed to expandUncoreGroups: the current group is not among them
GroupsAtEOF(groups, group) == groups

\* the end of the file: the set becomes the result, the groups are expanded
ScanEOF ==
    /\ ld.pc = "scan"
    /\ LET r == expandUncoreGroups(GroupsAtEOF(ld.groups, ld.group), md)
       IN  ld' = [ld EXCEPT
               !.pc = IF r.outcome = "panic" THEN "panic" ELSE "done",
               !.uncollectableEvents = ld.uncollectable,
               !.groups = r.groups,
               !.err = IF r.err THEN ErrRegex ELSE ErrNil]
    /\ UNCHANGED <<md, flagScope, ab, pe, ce, ex, tc, pa>>

\* scanner.Err() != nil: return
ScanReadError ==
    /\ ld.pc = "scan"
    /\ ld' = [ld EXCEPT !.pc = "done", !.err = ErrScanner]
    /\ UNCHANGED <<md, flagScope, ab, pe, ce, ex, tc, pa>>

\* the event directory is resolved and listed
ListArmDirectory ==
    /\ ld.pc = "start" /\ IsArm
    /\ ld' = [ld EXCEPT !.pc = "arm"]
    /\ UNCHANGED <<md, flagScope, ab, pe, ce, ex, tc, pa>>

\* os.Stat, the directory test, ReadDir or lookupArmVariant fails
ListArmDirectoryFails ==
    /\ ld.pc = "start" /\ IsArm
    /\ ld' = [ld EXCEPT !.pc = "done", !.err = ErrReadDir]
    /\ UNCHANGED <<md, flagScope, ab, pe, ce, ex, tc, pa>>

\* a directory, or a file whose name does not end in .json
ArmSkipEntry ==
    /\ ld.pc = "arm" /\ ld.nread < MaxFiles
    /\ ld' = [ld EXCEPT !.nread = @ + 1]
    /\ UNCHANGED <<md, flagScope, ab, pe, ce, ex, tc, pa>>

\* a .json file that cannot be read or parsed: err is set, continue
ArmBadFile ==
    /\ ld.pc = "arm" /\ ld.nread < MaxFiles
    /\ \E e \in {ErrReadFile, ErrUnmarshal} :
          ld' = [ld EXCEPT !.err = e, !.nread = @ + 1]
    /\ UNCHANGED <<md, flagScope, ab, pe, ce, ex, tc, pa>>

ArmEvents(records) ==
    [k \in DOMAIN records |->
        ArmEvent(records[k].ArchStdEvent, records[k].PublicDescription)]

\* the loop over the records of one file: the current group
RECURSIVE ArmGroup(_, _, _)
ArmGroup(events, k, currentGroup) ==
    IF k > Len(events) THEN currentGroup
    ELSE ArmGroup(events, k + 1,
             AddEvent(currentGroup, events[k], isCollectableEvent(events[k], md)))

\* ... and the names added to the set
RECURSIVE ArmUncollectable(_, _, _)
ArmUncollectable(events, k, uncollectable) ==
    IF k > Len(events) THEN uncollectable
    ELSE ArmUncollectable(events, k + 1,
             AddUncollectable(uncollectable, events[k],
                              isCollectableEvent(events[k], md)))

\* a .json file read and parsed: both calls assign err = nil
ArmLoadFile ==
    /\ ld.pc = "arm" /\ ld.nread < MaxFiles
    /\ \E records \in ArmFileContents :
          LET events == ArmEvents(records)
              currentGroup == ArmGroup(events, 1, <<>>)
          IN  ld' = [ld EXCEPT
                  !.err = ErrNil,
                  !.nread = @ + 1,
                  !.files = Append(@, records),
                  !.seen = @ \cup {events[k] : k \in DOMAIN events},
                  !.uncollectable = ArmUncollectable(events, 1, @),
                  !.groups = FlushGroup(@, currentGroup),
                  !.dropped = IF Len(currentGroup) = 0 THEN @ + 1 ELSE @]
    /\ UNCHANGED <<md, flagScope, ab, pe, ce, ex, tc, pa>>

\* the end of the directory listing: return
ArmReturn ==
    /\ ld.pc = "arm"
    /\ ld' = [ld EXCEPT !.pc = "done"]
    /\ UNCHANGED <<md, flagScope, ab, pe, ce, ex, tc, pa>>

Next ==
    \/ OpenCatalog \/ OpenCatalogFails
    \/ ScanSkip \/ ScanLine \/ ScanEOF \/ ScanReadError
    \/ ListArmDirectory \/ ListArmDirectoryFails
    \/ ArmSkipEntry \/ ArmBadFile \/ ArmLoadFile \/ ArmReturn

Spec == InitLoad /\ [][Next]_vars

-----------------------------------------------------------------------------
(* What a finished load returned *)

Returned == ld.pc = "done"

\* the events of the groups
EventsOf(groups) ==
    UNION {{groups[g][k] : k \in DOMAIN groups[g]} : g \in DOMAIN groups}

\* the events the filter rejected during the load
Rejected == {e \in ld.seen : ~isCollectableEvent(e, md)}

\* x is the copy expandUncoreGroup makes of src for one instance of a device
IsExpansionOf(x, src) ==
    LET match == FindStringSubmatch(src.Raw)
    IN  /\ Len(match) > 0
        /\ \E dev \in DOMAIN md.UncoreDeviceIDs :
              \E i \in DOMAIN md.UncoreDeviceIDs[dev] :
                 x = ExpandedEvent(src, match, md.UncoreDeviceIDs[dev][i], md.Vendor)

-----------------------------------------------------------------------------
(* C1 *)

\* C1 as stated: after an x86 load every event of a returned group satisfies
\* isCollectableEvent under the load's metadata and scope, and every name of
\* the returned uncollectable list is the name of a scanned event that does
\* not.
C1_AllCollectable ==
    (Returned /\ ~IsArm) =>
        /\ \A e \in EventsOf(ld.groups) : isCollectableEvent(e, md)
        /\ \A n \in ld.uncollectableEvents : \E e \in Rejected : e.Name = n

\* C1 amended: every event of a returned group is a scanned event that
\* satisfies isCollectableEvent, or the per-instance copy of one; every name
\* of the uncollectable list is the name of a scanned event that does not.
C1_CollectableOrExpansion ==
    (Returned /\ ~IsArm) =>
        /\ \A x \in EventsOf(ld.groups) :
              \/ x \in ld.seen /\ isCollectableEvent(x, md)
              \/ \E src \in ld.seen :
                    isCollectableEvent(src, md) /\ IsExpansionOf(x, src)
        /\ \A n \in ld.uncollectableEvents : \E e \in Rejected : e.Name = n

\* an x86 load that returned per-instance copies, one of which the filter
\* would reject, and reported a rejected event
C1_Witness ==
    /\ Returned /\ ~IsArm /\ ld.err = ErrNil
    /\ ld.uncollectableEvents # {}
    /\ \E x \in EventsOf(ld.groups) :
          x \notin ld.seen /\ ~isCollectableEvent(x, md)

-----------------------------------------------------------------------------
(* C2 *)

\* C2: a .json file that cannot be read or parsed does not make the ARM load
\* return an error, wherever the file sits in the listing.
C2_BadFileNonFatal ==
    (Returned /\ IsArm) => ld.err \notin {ErrReadFile, ErrUnmarshal}

-----------------------------------------------------------------------------
(* C4 *)

LastField(line) == Split(line, <<",">>)[Len(Split(line, <<",">>))]

\* C4: a line of more than one field whose last field does not start with
\* "name=" ends in a format error returned as a value, never in a crash or
\* a parsed event.
C4_FormatError ==
    (/\ pe.pc = "done"
     /\ Len(Split(pe.line, <<",">>)) > 1
     /\ ~HasPrefix(LastField(pe.line), <<"n","a","m","e","=">>))
    => pe.outcome = "error"

-----------------------------------------------------------------------------
(* C6 *)

\* an occurrence of O_PCIRDCUR directly followed by A_MISS_ or O_PCIRDCUR:
\* when it is rewritten (after an I, its own or the one a short form ends
\* in) the short form IPCI ends in the I that begins an earlier long form
PciJunction(s) ==
    \E i \in 1..Len(s) :
        /\ MatchAt(s, <<"O","_","P","C","I","R","D","C","U","R">>, i)
        /\ \/ MatchAt(s, <<"A","_","M","I","S","S","_">>, i + 10)
           \/ MatchAt(s, <<"O","_","P","C","I","R","D","C","U","R">>, i + 10)

\* C6 as stated: abbreviating an abbreviated name changes nothing, for every
\* input string.
C6_IdempotentAll == ab.pc = "twice" => ab.twice = ab.once

\* C6 amended: abbreviating an abbreviated name changes nothing, for every
\* input in which no O_PCIRDCUR is directly followed by A_MISS_ or
\* O_PCIRDCUR.
C6_Idempotent ==
    (ab.pc = "twice" /\ ~PciJunction(ab.in)) => ab.twice = ab.once

\* IA_MISS_DRD_OPT: the entry IA_MISS_DRD produces IMD_OPT, which the later
\* entry IMD_OPT rewrites in the same pass; a second pass finds nothing
C6_Witness ==
    /\ ab.pc = "twice"
    /\ ab.in = <<"I","A","_","M","I","S","S","_","D","R","D","_","O","P","T">>
    /\ ab.once = <<"I","M","D","O">>
    /\ ab.twice = <<"I","M","D","O">>


-----------------------------------------------------------------------------
(* C5 *)

\* the line without its last character has more than one field and its last
\* field does not start with "name="
Malformed(line) ==
    LET body == Slice(line, 0, Len(line) - 1)
    IN  /\ Len(Split(body, <<",">>)) > 1
        /\ ~HasPrefix(LastField(body), <<"n","a","m","e","=">>)

\* C5: once a malformed data line is scanned the x86 load has returned with
\* a non-nil error.
C5_FailFast ==
    (~IsArm /\ ld.line # <<>> /\ Malformed(ld.line)) =>
        (Returned /\ ld.err # ErrNil)

-----------------------------------------------------------------------------
(* C8 *)

\* C8: on either path a load that returns no error returns as uncollectable
\* list exactly the names of the events the filter rejected.
C8_ReportsRejected ==
    (Returned /\ ld.err = ErrNil) =>
        ld.uncollectableEvents = {e.Name : e \in Rejected}

-----------------------------------------------------------------------------
(* C9 *)

\* C9: no returned group is empty, on either path and after expansion.
C9_NoEmptyGroup ==
    Returned => \A g \in DOMAIN ld.groups : Len(ld.groups[g]) > 0

\* an x86 load that dropped an all-filtered group and returned another
C9_Witness ==
    /\ Returned /\ ~IsArm /\ ld.err = ErrNil
    /\ ld.dropped > 0
    /\ Len(ld.groups) > 0

-----------------------------------------------------------------------------
(* C10 *)

\* the name the listing is searched for
BaseName(event) == Split(event.Name, <<":">>)[1]

\* a load without error of a catalog of at least one event, every event name
\* of which is in the supported-events listing
ListingCoversCatalog ==
    /\ Returned /\ ld.err = ErrNil
    /\ ld.seen # {}
    /\ \A e \in ld.seen : Contains(md.PerfSupportedEvents, BaseName(e))

AtLeastOneGroupNoneRejected ==
    /\ \E g \in DOMAIN ld.groups : Len(ld.groups[g]) > 0
    /\ ld.uncollectableEvents = {}

\* C10 as stated: for every combination of capability flags and scope, such
\* a load returns at least one non-empty group and an empty uncollectable
\* list.
C10_AnyFlags == ListingCoversCatalog => AtLeastOneGroupNoneRejected

AllFlags ==
    /\ md.SupportsFixedTMA /\ md.SupportsPEBS /\ md.SupportsOCR
    /\ md.SupportsUncore /\ md.SupportsRefCycles

\* every event of a device other than cpu names a device with at least one
\* instance and carries umask= or event= in its raw token
UncoreEventsUsable ==
    \A e \in ld.seen :
        (e.Device # <<"c","p","u">> /\ e.Device # <<>>) =>
            /\ e.Device \in DOMAIN md.UncoreDeviceIDs
            /\ Len(md.UncoreDeviceIDs[e.Device]) > 0
            /\ (Contains(e.Raw, <<"u","m","a","s","k">>) \/ Contains(e.Raw, <<"e","v","e","n","t">>))

\* C10 amended: with all five capability flags set, system-wide scope, usable
\* uncore events and no group left unterminated at the end of the catalog,
\* such a load returns at least one non-empty group and an empty
\* uncollectable list.
C10_AllFlags ==
    (/\ ListingCoversCatalog
     /\ AllFlags
     /\ flagScope = scopeSystem
     /\ UncoreEventsUsable
     /\ ld.group = <<>>)
    => AtLeastOneGroupNoneRejected

\* an x86 load under all flags of a catalog with a modifier-suffixed event and
\* an uncore group, expanded
C10_Witness ==
    /\ ListingCoversCatalog /\ AllFlags /\ flagScope = scopeSystem
    /\ UncoreEventsUsable /\ ld.group = <<>>
    /\ ~IsArm
    /\ \E e \in ld.seen : e.Name # BaseName(e)
    /\ \E e \in ld.seen : e.Device = <<"c","h","a">>
    /\ AtLeastOneGroupNoneRejected

-----------------------------------------------------------------------------
(* transformConditional: "THEN if COND else ELSE" to "COND ? THEN : ELSE" *)

\* strings.TrimSpace on the left, for the blank the formulas use
TrimLeft(s) ==
    LET solid == {i \in 1..Len(s) : s[i] # " "}
    IN  IF solid = {} THEN <<>> ELSE SubSeq(s, SetMin(solid), Len(s))

TrimRight(s) ==
    LET solid == {i \in 1..Len(s) : s[i] # " "}
    IN  IF solid = {} THEN <<>> ELSE SubSeq(s, 1, SetMax(solid))

TrimSpace(s) == TrimLeft(TrimRight(s))

\* the keyword stands at position i as a token of its own, not as part of an
\* identifier
IsTokenAt(s, i, word) ==
    /\ MatchAt(s, word, i)
    /\ (i = 1 \/ s[i - 1] \notin WordChars)
    /\ (i + Len(word) > Len(s) \/ s[i + Len(word)] \notin WordChars)

IfTokens(s) == {i \in 1..Len(s) : IsTokenAt(s, i, <<"i","f">>)}

ElseTokens(s) == {i \in 1..Len(s) : IsTokenAt(s, i, <<"e","l","s","e">>)}

\* opening minus closing parentheses in s[lo..hi]
Balance(s, lo, hi) ==
    Cardinality({i \in lo..hi : s[i] = "("})
    - Cardinality({i \in lo..hi : s[i] = ")"})

\* first position of the enclosing scope of position p: after the nearest
\* unmatched "(" on the left, or the start of the formula
ScopeStart(s, p) ==
    LET open == {k \in 1..(p - 1) : s[k] = "(" /\ Balance(s, k, p - 1) > 0}
    IN  IF open = {} THEN 1 ELSE SetMax(open) + 1

\* position of the ")" that closes the scope entered before position from,
\* or Len(s) + 1
ScopeEnd(s, from) ==
    LET close == {k \in from..Len(s) : s[k] = ")" /\ Balance(s, from, k) < 0}
    IN  IF close = {} THEN Len(s) + 1 ELSE SetMin(close)

\* the else at the parenthesis depth of the if at p, inside its scope; 0 when
\* there is none
MatchingElse(s, p) ==
    LET hits == {k \in (p + 2)..(ScopeEnd(s, p + 2) - 1) :
                    IsTokenAt(s, k, <<"e","l","s","e">>) /\ Balance(s, p + 2, k) = 0}
    IN  IF hits = {} THEN 0 ELSE SetMin(hits)

\* the then operand of a conditional inside parentheses keeps its leading
\* blank
TernaryNested(cond, then, otherwise) ==
    <<" ">> \o TrimSpace(cond) \o <<" ","?"," ">> \o TrimRight(then) \o <<" ",":"," ">>
    \o TrimSpace(otherwise) \o <<" ">>

\* the three operands trimmed
TernaryNoTrim(cond, then, otherwise) ==
    cond \o <<" ","?"," ">> \o then \o <<" ",":"," ">> \o otherwise

\* the canonical form: the three operands trimmed
Ternary(cond, then, otherwise) ==
    TrimSpace(cond) \o <<" ","?"," ">> \o TrimSpace(then) \o <<" ",":"," ">>
    \o TrimSpace(otherwise)

\* the first if of s rewritten; err when it has no matching else
RewriteFirstIf(s) ==
    LET p == SetMin(IfTokens(s))
        e == MatchingElse(s, p)
        a == ScopeStart(s, p)
        z == ScopeEnd(s, e + 4)
        cond == SubSeq(s, p + 2, e - 1)
        then == SubSeq(s, a, p - 1)
        otherwise == SubSeq(s, e + 4, z - 1)
        rest == SubSeq(s, z + 1, Len(s))
    IN  IF e = 0 THEN [err |-> TRUE, out |-> s]
        ELSE IF a = 1 /\ z = Len(s) + 1
        THEN [err |-> FALSE, out |-> Ternary(cond, then, otherwise)]
        ELSE [err |-> FALSE,
              out |-> SubSeq(s, 1, a - 1) \o TernaryNested(cond, then, otherwise)
                      \o (IF z > Len(s) THEN <<>>
                          ELSE IF rest = <<>> THEN <<")">>
                          ELSE <<")"," ">> \o rest)]

\* the input returned unchanged
TransformNever(s) == [err |-> FALSE, out |-> s]

\* one rewrite per if, the first if first; the input unchanged without an if
RECURSIVE transformConditional(_)
transformConditional(s) ==
    IF IfTokens(s) = {} THEN [err |-> FALSE, out |-> s]
    ELSE LET r == RewriteFirstIf(s)
         IN  IF r.err THEN r ELSE transformConditional(r.out)

\* pieces of metric formulas
FormulaFragments ==
    << <<"a">>, <<"(","a",")">>, <<"1"," ","-"," ","a"," ","/"," ","b">>, <<"("," ","a">>, <<" ","i","f"," ","b">>, <<" ","i","f"," ","c"," ",">"," ","1">>, <<" ","i","f">>,
       <<" ","e","l","s","e"," ","c">>, <<" ","e","l","s","e"," ","0">>, <<" ","e","l","s","e"," ","c"," ",")">>, <<" ","i","f"," ","b"," ",")">>, <<")">>, <<" ">>, <<"d","i","f","f">>,
       <<" ","e","l","s","e","w","h","e","r","e">> >>

RECURSIVE FormulasOf(_)
FormulasOf(n) ==
    IF n = 0 THEN {<<>>}
    ELSE {f \o FormulaFragments[i] :
            f \in FormulasOf(n - 1), i \in DOMAIN FormulaFragments}

\* the formulas of 1 to max fragments
Formulas(max) == UNION {FormulasOf(n) : n \in 1..max}

InitCond ==
    /\ md = IdleMd /\ flagScope = scopeSystem
    /\ ab = IdleAb /\ pe = IdlePe /\ ce = IdleCe /\ ex = IdleEx /\ ld = IdleLd
    /\ pa = IdlePa
    /\ \E f \in Formulas(MaxFormulaParts) : tc = [pc |-> "call", in |-> f]

\* out, err = transformConditional(in)
TransformFormula ==
    /\ tc.pc = "call"
    /\ LET r == transformConditional(tc.in)
       IN  tc' = [pc |-> "done", in |-> tc.in, out |-> r.out, err |-> r.err]
    /\ UNCHANGED <<md, flagScope, ab, pe, ce, ex, ld, pa>>

NextCond == TransformFormula

SpecCond == InitCond /\ [][NextCond]_vars

-----------------------------------------------------------------------------
(* C11 *)

\* position j is in the scope of position i and at its parenthesis depth
SameDepth(s, i, j) ==
    /\ i < j
    /\ Balance(s, i, j) = 0
    /\ \A k \in i..j : Balance(s, i, k) >= 0

\* some if token has no else token after it at its parenthesis depth
IfWithoutElse(s) ==
    \E i \in IfTokens(s) : ~\E j \in ElseTokens(s) : SameDepth(s, i, j)

\* C11: a formula with an if token that has no matching else at the same
\* parenthesis depth yields an error; a formula without an if token is
\* returned unchanged and without error.
C11_ErrorOrUnchanged ==
    tc.pc = "done" =>
        /\ IfWithoutElse(tc.in) => tc.err
        /\ IfTokens(tc.in) = {} => (~tc.err /\ tc.out = tc.in)

\* an if inside parentheses whose only else stands outside them was refused
C11_Witness ==
    /\ tc.pc = "done"
    /\ tc.in = <<"("," ","a"," ","i","f"," ","b"," ",")"," ","e","l","s","e"," ","c">>
    /\ tc.err

-----------------------------------------------------------------------------
(* C12 *)

\* every ")" of s closes a "(" of s, and none stays open
WellNested(s) ==
    /\ Balance(s, 1, Len(s)) = 0
    /\ \A k \in 1..Len(s) : Balance(s, 1, k) >= 0

\* the formula is THEN if COND else ELSE with one if and one else, both at
\* depth 0, and well-nested parts
SimpleConditional(s) ==
    /\ Cardinality(IfTokens(s)) = 1
    /\ Cardinality(ElseTokens(s)) = 1
    /\ LET i == SetMin(IfTokens(s))
           j == SetMin(ElseTokens(s))
       IN  /\ i < j
           /\ WellNested(SubSeq(s, 1, i - 1))
           /\ WellNested(SubSeq(s, i + 2, j - 1))
           /\ WellNested(SubSeq(s, j + 4, Len(s)))

\* C12: such a formula is rewritten to exactly
\* trim(COND) + " ? " + trim(THEN) + " : " + trim(ELSE).
C12_ExactTernary ==
    (tc.pc = "done" /\ SimpleConditional(tc.in)) =>
        LET i == SetMin(IfTokens(tc.in))
            j == SetMin(ElseTokens(tc.in))
        IN  /\ ~tc.err
            /\ tc.out = TrimSpace(SubSeq(tc.in, i + 2, j - 1)) \o <<" ","?"," ">>
                         \o TrimSpace(SubSeq(tc.in, 1, i - 1)) \o <<" ",":"," ">>
                         \o TrimSpace(SubSeq(tc.in, j + 4, Len(tc.in)))

\* "1 - a / b if c > 1 else 0" became "c > 1 ? 1 - a / b : 0"
C12_Witness ==
    /\ tc.pc = "done"
    /\ tc.in = <<"1"," ","-"," ","a"," ","/"," ","b"," ","i","f"," ","c"," ",">"," ","1"," ","e","l","s","e"," ","0">>
    /\ ~tc.err
    /\ tc.out = <<"c"," ",">"," ","1"," ","?"," ","1"," ","-"," ","a"," ","/"," ","b"," ",":"," ","0">>

-----------------------------------------------------------------------------
(* C13 *)

\* the events of the records that pass the filter, in record order, each
\* with Name = Raw = ArchStdEvent, Device = "cpu", Description =
\* PublicDescription
CollectableRecords(records) ==
    SelectSeq([k \in DOMAIN records |->
                  [Raw |-> records[k].ArchStdEvent,
                   Name |-> records[k].ArchStdEvent,
                   Device |-> <<"c","p","u">>,
                   Description |-> records[k].PublicDescription]],
              LAMBDA e : isCollectableEvent(e, md))

\* one group per file that has a collectable record, in file order
RECURSIVE GroupsOfFiles(_)
GroupsOfFiles(files) ==
    IF files = <<>> THEN <<>>
    ELSE LET group == CollectableRecords(Head(files))
         IN  (IF Len(group) > 0 THEN <<group>> ELSE <<>>)
             \o GroupsOfFiles(Tail(files))

\* C13: the ARM loader returns, per .json file that has a collectable
\* record, one group of exactly the file's collectable records in record
\* order, the names as written in the file.
C13_GroupPerFile ==
    (Returned /\ IsArm) => ld.groups = GroupsOfFiles(ld.files)

\* two files were loaded, one gave a group with a name the abbreviator would
\* shorten, the other gave none
C13_Witness ==
    /\ Returned /\ IsArm
    /\ Len(ld.files) = 2
    /\ Len(ld.groups) = 1
    /\ \E e \in EventsOf(ld.groups) : e.Name = <<"I","O","_","I","T","O","M","_","X">>

-----------------------------------------------------------------------------
(* expandUncoreGroups applied to a list of groups *)

\* groups as the loader builds them: of one device type, mixed, with and
\* without instances, and one whose raw token the pattern does not match
ExpandAllGroups ==
    LET chaA == LoadedEvent(<<"c","h","a","/","e","v","e","n","t","=","0","x","3","5",",","u","m","a","s","k","=","0","x","c","8",",","n","a","m","e","=","'","U","N","C","C","T","I",".","I","M","C","'","/">>,
                               <<"U","N","C","C","T","I",".","I","M","C">>, <<"c","h","a">>)
        chaB == LoadedEvent(
                    <<"c","h","a","/","e","v","e","n","t","=","0","x","3","6",",","u","m","a","s","k","=","0","x","2","1",",","c","o","n","f","i","g","1","=","0","x","4","0","4","3","3",",","n","a","m","e","=","'","U","N","C","C","T","O",".","I","A","_","M","I","S","S","'","/">>,
                    <<"U","N","C","C","T","O",".","I","A","_","M","I","S","S">>, <<"c","h","a">>)
        chaX == LoadedEvent(<<"c","h","a","/","u","m","a","s","k","=","0","x","2","1",",","n","a","m","e","=","'","U","N","C","_","C","H","A","_","X","'","/">>,
                               <<"U","N","C","_","C","H","A","_","X">>, <<"c","h","a">>)
        imc == LoadedEvent(<<"i","m","c","/","e","v","e","n","t","=","0","x","0","5",",","u","m","a","s","k","=","0","x","c","f",",","n","a","m","e","=","'","U","N","C","M","C","C","0",".","R","D","'","/">>,
                              <<"U","N","C","M","C","C","0",".","R","D">>, <<"i","m","c">>)
        cpu == LoadedEvent(<<"c","p","u","/","e","v","e","n","t","=","0","x","3","c",",","u","m","a","s","k","=","0","x","0",",","n","a","m","e","=","'","C","P","U","_","C","L","K","'","/">>,
                              <<"C","P","U","_","C","L","K">>, <<"c","p","u">>)
        cycles == LoadedEvent(<<"c","p","u","-","c","y","c","l","e","s",":","k">>, <<"c","p","u","-","c","y","c","l","e","s",":","k">>, <<>>)
    IN  { <<chaA>>, <<chaA, chaB>>, <<chaX>>, <<imc>>, <<cpu>>, <<cpu, chaA>>,
          <<cycles>> }

ExpandAllInputs == UNION {[1..n -> ExpandAllGroups] : n \in 0..MaxGroups}

InitExpandAll ==
    /\ flagScope = scopeSystem
    /\ md \in {m \in MetadataSet :
                 /\ m.Architecture = "x86_64"
                 /\ m.SupportsFixedTMA /\ m.SupportsPEBS /\ m.SupportsOCR
                 /\ m.SupportsUncore /\ m.SupportsRefCycles}
    /\ ab = IdleAb /\ pe = IdlePe /\ ce = IdleCe /\ ld = IdleLd
    /\ tc = IdleTc /\ pa = IdlePa
    /\ \E gs \in ExpandAllInputs :
          ex = [pc |-> "in", in |-> gs, groups |-> <<>>, err |-> FALSE]

\* expandedGroups, err = expandUncoreGroups(groups, metadata)
ExpandAll ==
    /\ ex.pc = "in"
    /\ LET r == expandUncoreGroups(ex.in, md)
       IN  ex' = [ex EXCEPT !.pc = "done", !.groups = r.groups, !.err = r.err]
    /\ UNCHANGED <<md, flagScope, ab, pe, ce, ld, tc, pa>>

NextExpandAll == ExpandAll

SpecExpandAll == InitExpandAll /\ [][NextExpandAll]_vars

-----------------------------------------------------------------------------
(* C14 *)

\* what one input group is replaced by
Replacement(group) ==
    LET device == group[1].Device
    IN  IF device \notin DOMAIN md.UncoreDeviceIDs THEN <<group>>
        ELSE [i \in DOMAIN md.UncoreDeviceIDs[device] |->
                 expandUncoreGroup(group, <<md.UncoreDeviceIDs[device][i]>>,
                                   md.Vendor).groups[1]]

RECURSIVE Replacements(_)
Replacements(groups) ==
    IF groups = <<>> THEN <<>>
    ELSE Replacement(Head(groups)) \o Replacements(Tail(groups))

\* C14: without a pattern error expandUncoreGroups returns, in input order,
\* each group of an unknown device type unchanged, each group of a device
\* type with k >= 1 instances as its k expansions in the order of the
\* instance-id list, and nothing for a device type with no instance.
C14_InPlace ==
    (ex.pc = "done" /\ ~ex.err) => ex.groups = Replacements(ex.in)

\* a passed-through group, an expanded group and a dropped group, id order
C14_Witness ==
    /\ ex.pc = "done" /\ ~ex.err
    /\ Len(ex.in) = 3
    /\ ex.in[1][1].Device = <<"c","p","u">>
    /\ ex.in[2][1].Device = <<"c","h","a">>
    /\ ex.in[3][1].Device = <<"i","m","c">>
    /\ Len(ex.groups) = 1 + NumInstances
    /\ ex.groups[1] = ex.in[1]
    /\ md.Vendor = "GenuineIntel"
    /\ ex.groups[2][1].Name = <<"U","N","C","C","T","I",".","I","M","C",".","0">>
    /\ ex.groups[3][1].Name = <<"U","N","C","C","T","I",".","I","M","C",".","1">>

-----------------------------------------------------------------------------
(* C15 *)

\* C15: a name that starts with "UNC" is abbreviated to a name that starts
\* with "UNC", and every table entry whose long form starts with "UNC" has
\* a short form that does.
C15_KeepsUncorePrefix ==
    /\ \A i \in DOMAIN abbreviations :
          HasPrefix(abbreviations[i][1], <<"U","N","C">>)
              => HasPrefix(abbreviations[i][2], <<"U","N","C">>)
    /\ (ab.pc \in {"once", "twice"} /\ HasPrefix(ab.in, <<"U","N","C">>))
          => HasPrefix(ab.once, <<"U","N","C">>)
    /\ (ab.pc = "twice" /\ HasPrefix(ab.once, <<"U","N","C">>))
          => HasPrefix(ab.twice, <<"U","N","C">>)

\* an uncore name was shortened and kept its prefix
C15_Witness ==
    /\ ab.pc = "once"
    /\ ab.in = <<"U","N","C","_","M","_","C","A","S","_","C","O","U","N","T","_","S","C","H","X">>
    /\ ab.once = <<"U","N","C","M","C","C","X">>

-----------------------------------------------------------------------------
(* getPerfCommandArgs and getPerfCommand *)

granularitySystem == "system"
granularitySocket == "socket"
granularityCPU == "cpu"

\* strings.Join(elems, sep)
RECURSIVE Join(_, _)
Join(elems, sep) ==
    IF elems = <<>> THEN <<>>
    ELSE IF Len(elems) = 1 THEN elems[1]
    ELSE elems[1] \o sep \o Join(Tail(elems), sep)

\* "stat", "-I", interval in ms, "-j", then the scope arguments
ScopeArgs(pids, cgroups, interval, granularity) ==
    << <<"s","t","a","t">>, <<"-","I">>, Itoa(interval * 1000), <<"-","j">> >>
    \o (IF flagScope = scopeSystem
        THEN << <<"-","a">> >>
             \o (IF granularity \in {granularityCPU, granularitySocket}
                 THEN << <<"-","A">> >> ELSE <<>>)
        ELSE IF flagScope = scopeProcess
        THEN << <<"-","p">>, Join(pids, <<",">>) >>
        ELSE IF flagScope = scopeCgroup
        THEN << <<"-","-","f","o","r","-","e","a","c","h","-","c","g","r","o","u","p">>, Join(cgroups, <<",">>) >>
        ELSE <<>>)

\* "-e" and the quoted list of the groups, each "{raw,raw,...}"
EventArgs(eventGroups) ==
    LET groups == [g \in DOMAIN eventGroups |->
                     <<"{">> \o Join([k \in DOMAIN eventGroups[g] |->
                                       eventGroups[g][k].Raw], <<",">>) \o <<"}">>]
    IN  << <<"-","e">>, <<"'">> \o Join(groups, <<",">>) \o <<"'">> >>

\* the application arguments after "--", or else the timeout as a sleep
TailArgs(timeout, application) ==
    IF Len(application) > 0 THEN << <<"-","-">> >> \o application
    ELSE IF flagScope # scopeCgroup /\ timeout # 0
    THEN << <<"s","l","e","e","p">>, Itoa(timeout) >>
    ELSE <<>>

getPerfCommandArgs(pids, cgroups, timeout, eventGroups, interval, granularity, application) ==
    ScopeArgs(pids, cgroups, interval, granularity)
    \o EventArgs(eventGroups)
    \o TailArgs(timeout, application)

\* the duration getPerfCommand hands over as timeout
Duration(flagDuration, flagRefresh, flagPidList) ==
    IF flagScope = scopeSystem THEN flagDuration
    ELSE IF flagScope = scopeProcess
    THEN IF flagDuration > 0 THEN flagDuration
         ELSE IF Len(flagPidList) = 0 THEN flagRefresh
         ELSE 0
    ELSE 0

\* event groups as the loader returns them
CommandGroups ==
    LET cpu == LoadedEvent(<<"c","p","u","/","e","v","e","n","t","=","0","x","3","c",",","u","m","a","s","k","=","0","x","0",",","n","a","m","e","=","'","C","P","U","_","C","L","K","'","/">>,
                              <<"C","P","U","_","C","L","K">>, <<"c","p","u">>)
        ocr == LoadedEvent(<<"c","p","u","/","e","v","e","n","t","=","0","x","2","a",",","u","m","a","s","k","=","0","x","0","1",",","n","a","m","e","=","'","O","C","R",".","R","E","A","D","S","'","/">>,
                              <<"O","C","R",".","R","E","A","D","S">>, <<"c","p","u">>)
        cycles == LoadedEvent(<<"c","p","u","-","c","y","c","l","e","s",":","k">>, <<"c","p","u","-","c","y","c","l","e","s",":","k">>, <<>>)
    IN  { <<>>, << <<cpu, cycles>> >>, << <<cycles>>, <<ocr>> >> }

InitArgs ==
    /\ md = IdleMd /\ flagScope \in Scopes
    /\ ab = IdleAb /\ pe = IdlePe /\ ce = IdleCe /\ ex = IdleEx /\ ld = IdleLd
    /\ tc = IdleTc
    /\ \E pids \in {<<>>, << <<"1","2">>, <<"3","4">> >>},
          cgroups \in {<<>>, << <<"c","1">> >>},
          timeout \in 0..MaxTimeout,
          flagDuration \in 0..MaxTimeout,
          flagRefresh \in {30},
          flagPidList \in {<<>>, << <<"1","2">> >>},
          eventGroups \in CommandGroups,
          interval \in {1, 5},
          granularity \in {granularitySystem, granularitySocket, granularityCPU},
          application \in {<<>>, << <<"a","p","p">>, <<"-","x">> >>, << <<"s","l","e","e","p">>, <<"2">> >>} :
          pa = [pc |-> "in", pids |-> pids, cgroups |-> cgroups,
                timeout |-> timeout, flagDuration |-> flagDuration,
                flagRefresh |-> flagRefresh, flagPidList |-> flagPidList,
                eventGroups |-> eventGroups, flagPerfPrintInterval |-> interval,
                flagGranularity |-> granularity,
                argsApplication |-> application, args |-> <<>>]

\* args, err = getPerfCommandArgs(pids, cgroups, timeout, eventGroups, n)
GetPerfCommandArgs ==
    /\ pa.pc = "in"
    /\ pa' = [pa EXCEPT
              !.pc = "done",
              !.args = getPerfCommandArgs(pa.pids, pa.cgroups, pa.timeout,
                           pa.eventGroups, pa.flagPerfPrintInterval,
                           pa.flagGranularity, pa.argsApplication)]
    /\ UNCHANGED <<md, flagScope, ab, pe, ce, ex, ld, tc>>

\* getPerfCommand: the duration is computed, then handed over as timeout
GetPerfCommand ==
    /\ pa.pc = "in"
    /\ LET duration == Duration(pa.flagDuration, pa.flagRefresh, pa.flagPidList)
       IN  pa' = [pa EXCEPT
                 !.pc = "done",
                 !.timeout = duration,
                 !.args = getPerfCommandArgs(pa.pids, pa.cgroups, duration,
                              pa.eventGroups, pa.flagPerfPrintInterval,
                              pa.flagGranularity, pa.argsApplication)]
    /\ UNCHANGED <<md, flagScope, ab, pe, ce, ex, ld, tc>>

NextArgs == GetPerfCommandArgs \/ GetPerfCommand

SpecArgs == InitArgs /\ [][NextArgs]_vars

-----------------------------------------------------------------------------
(* C16 *)

\* the arguments that follow "-e" and its value
AfterEvents(args) ==
    LET e == SetMin({i \in DOMAIN args : args[i] = <<"-","e">>})
    IN  SubSeq(args, e + 2, Len(args))

SleepAdded == AfterEvents(pa.args) = << <<"s","l","e","e","p">>, Itoa(pa.timeout) >>

\* C16: the sleep is added exactly when the scope is not cgroup and the
\* timeout is not 0 (the statement of the comment above getPerfCommandArgs).
C16_SleepIffTimeout ==
    pa.pc = "done" =>
        (SleepAdded <=> (flagScope # scopeCgroup /\ pa.timeout # 0))

-----------------------------------------------------------------------------
(* C17 *)

\* an event of an uncore device, or an off-core-response event of the cpu
IsSystemWideOnly(e) ==
    \/ e.Device # <<>> /\ e.Device # <<"c","p","u">>
    \/ e.Device = <<"c","p","u">> /\ IsOCRName(e.Name)

\* C17: under the per-process or per-cgroup scope no returned group holds an
\* event of a device other than cpu or an off-core-response event, whatever
\* the capability flags and the inventory are.
C17_NarrowScopeCoreOnly ==
    (Returned /\ NarrowScope) =>
        \A e \in EventsOf(ld.groups) : ~IsSystemWideOnly(e)

\* a narrow-scope load on a platform with every capability that returned a
\* group and had read an event that the system-wide scope would have kept:
\* an uncore event of an inventoried device
C17_Witness ==
    /\ Returned /\ NarrowScope /\ ld.err = ErrNil
    /\ md.SupportsUncore /\ md.SupportsOCR /\ md.SupportsFixedTMA
    /\ ld.groups # <<>>
    /\ \E e \in ld.seen :
          /\ e.Device \in DOMAIN md.UncoreDeviceIDs
          /\ Len(md.UncoreDeviceIDs[e.Device]) > 0
          /\ Contains(e.Raw, <<"u","m","a","s","k">>) /\ Contains(e.Raw, <<"e","v","e","n","t">>)
          /\ e \notin EventsOf(ld.groups)

-----------------------------------------------------------------------------
(* C18 *)

\* the collectable events read after the last line that ended in ';'
Trailing == SelectSeq(ld.pending, LAMBDA e : isCollectableEvent(e, md))

\* C18: an x86 load that returns no error returns the replacements of the
\* groups closed by a line ending in ';' and nothing else, and the names of
\* the collectable events read after the last such line are not in the
\* uncollectable list.
C18_TrailingGroupDropped ==
    (Returned /\ ~IsArm /\ ld.err = ErrNil) =>
        /\ ld.groups = Replacements(ld.closed)
        /\ \A k \in DOMAIN Trailing :
              Trailing[k].Name \notin ld.uncollectableEvents

\* a load that closed a group, then read a collectable event on a line not
\* ending in ';' before the end of the file; the event is in no returned group
C18_Witness ==
    /\ Returned /\ ~IsArm /\ ld.err = ErrNil
    /\ ld.groups # <<>>
    /\ Trailing # <<>>
    /\ \A k \in DOMAIN Trailing : Trailing[k] \notin EventsOf(ld.groups)


=============================================================================
